---- MODULE Spec2Model ----
(***************************************************************************)
(* kubeview: the bubbletea model/update loop of src/main.go.               *)
(*                                                                         *)
(* src/main.go holds two variants of the program: variant "A" (lines       *)
(* 1-1867) and variant "B" (lines 1869-3881).  The variable `variant`      *)
(* selects which Update/Init/View is running; it never changes.            *)
(*                                                                         *)
(* The program state `m` is the Go struct `model`.  Every tea.Cmd that an  *)
(* Update returns is put in `inflight` (a bag of commands whose result has *)
(* not been delivered yet).  The cluster is the environment: when a        *)
(* command completes its result is drawn from the lists the cluster can    *)
(* return.                                                                 *)
(*                                                                         *)
(* The functions behind the commands (getNodes, getPods,                   *)
(* getDashboardMetrics, formatPercentage) are operators; `call` records    *)
(* one call of such a function and what it returned.                       *)
(*                                                                         *)
(* Fields of `model` that only feed the rendering library (bar charts,     *)
(* viewport geometry and content, styles, hostDiskUsage) are not part of   *)
(* the state.                                                              *)
(***************************************************************************)
EXTENDS Integers, Sequences, FiniteSets, Bags, TLC

VARIABLES variant, session, m, inflight, status, pending, origin, call

vars == <<variant, session, m, inflight, status, pending, origin, call>>

(***************************************************************************)
(* Bounds of the model.                                                    *)
(***************************************************************************)
MaxLen == 2        \* longest list the cluster returns
MaxInFlight == 2   \* commands outstanding when one more may still be issued
MaxInput == 1      \* characters the user types into the replicas input
MaxCursor == 5     \* rows the user moves the cursor down

(***************************************************************************)
(* The objects the cluster can hold.  Every object is [ns, name]; cluster  *)
(* scoped objects have ns = "".  List calls return the objects in key      *)
(* order, so a list is an ordered selection of the universe.               *)
(***************************************************************************)
Obj(ns, name) == [ns |-> ns, name |-> name]

NoObj == Obj("", "")

NodeUniverse == <<Obj("", "n1")>>

PodUniverse == <<Obj("ns1", "p1"), Obj("ns2", "p2")>>

DeploymentUniverse == <<Obj("ns1", "d1"), Obj("ns1", "d2")>>

NamespaceUniverse == <<Obj("", "ns1"), Obj("", "ns2")>>

ContainerUniverse == <<>>

\* *d.Spec.Replicas of the deployments of the universe, as a digit
Replicas(d) == "2"

RECURSIVE SubSeqsOf(_)
\* all order-preserving selections of the sequence u
SubSeqsOf(u) ==
    IF u = <<>> THEN {<<>>}
    ELSE LET rest == SubSeqsOf(Tail(u))
         IN rest \cup {<<Head(u)>> \o s : s \in rest}

\* the lists a list call can return from universe u under namespace filter
\* ns; namespaces are neither created nor deleted while the program runs
Listing(u, ns) ==
    IF u = NamespaceUniverse THEN {u} ELSE
    {s \in SubSeqsOf(u) :
        /\ Len(s) <= MaxLen
        /\ ns # "" => \A i \in 1..Len(s) : s[i].ns = ns}

Names(list) == {list[i].name : i \in 1..Len(list)}

\* the metrics index built by getNodes/getPods: the metrics server of the
\* model has a sample for every listed object
MetricsFor(list) == {Names(list)}

(***************************************************************************)
(* Screens, list fields and their fetch commands.                          *)
(***************************************************************************)
\* the list fields of `model`
Kinds == {"nodes", "pods", "pvcs", "pvs", "deployments", "statefulsets",
          "daemonsets", "services", "netpols", "events", "alerts",
          "resourcequotas", "namespaces"}

\* the list a list screen displays (viewState constants)
KindOfView ==
    [viewNodes |-> "nodes", viewPods |-> "pods", viewPVCs |-> "pvcs",
     viewPVs |-> "pvs", viewDeployments |-> "deployments",
     viewStatefulSets |-> "statefulsets", viewDaemonSets |-> "daemonsets",
     viewServices |-> "services", viewNetworkPolicies |-> "netpols",
     viewEvents |-> "events", viewNamespaces |-> "namespaces",
     viewAlerts |-> "alerts", viewResourceQuotas |-> "resourcequotas"]

\* the get* function that lists each kind
Getter ==
    [nodes |-> "getNodes", pods |-> "getPods", pvcs |-> "getPVCs",
     pvs |-> "getPVs", deployments |-> "getDeployments",
     statefulsets |-> "getStatefulSets", daemonsets |-> "getDaemonSets",
     services |-> "getServices", netpols |-> "getNetworkPolicies",
     events |-> "getEvents", namespaces |-> "getNamespaces",
     alerts |-> "getAlerts", resourcequotas |-> "getResourceQuotas"]

\* the get* functions that take no namespace argument
ClusterScoped == {"nodes", "pvs", "namespaces"}

\* the kind argument getResourceYAML is given for each list
YAMLKind ==
    [nodes |-> "Node", pods |-> "Pod", pvcs |-> "PersistentVolumeClaim",
     pvs |-> "PersistentVolume", deployments |-> "Deployment",
     statefulsets |-> "StatefulSet", daemonsets |-> "DaemonSet",
     services |-> "Service", netpols |-> "NetworkPolicy",
     events |-> "Event", namespaces |-> "Namespace"]

\* a tea.Cmd: the function called and its arguments
Cmd(type, ns, name, kind, arg) ==
    [type |-> type, ns |-> ns, name |-> name, kind |-> kind, arg |-> arg]

doTick == Cmd("doTick", "", "", "", 0)

Quit == Cmd("Quit", "", "", "", 0)

\* getNodes(...), getPods(..., namespace), ...: the list call of a kind
getList(kind, namespace) ==
    Cmd(Getter[kind], IF kind \in ClusterScoped THEN "" ELSE namespace, "", "", 0)

getDashboardMetrics == Cmd("getDashboardMetrics", "", "", "", 0)

getHostMetrics == Cmd("getHostMetrics", "", "", "", 0)

getContainers == Cmd("getContainers", "", "", "", 0)

getHostLogs(logType) == Cmd("getHostLogs", "", logType, "", 0)

getContainerLogs(containerName) == Cmd("getContainerLogs", "", containerName, "", 0)

getLogs(namespace, podName) == Cmd("getLogs", namespace, podName, "", 0)

getResourceYAML(namespace, name, kind) == Cmd("getResourceYAML", namespace, name, kind, 0)

deletePod(namespace, name) == Cmd("deletePod", namespace, name, "", 0)

scaleDeployment(namespace, name, replicas) ==
    Cmd("scaleDeployment", namespace, name, "", replicas)

(***************************************************************************)
(* What an Update returns: the next model and the commands, or a panic     *)
(* (an index out of range).                                                *)
(***************************************************************************)
Ret(mm, cmds) == [m |-> mm, cmd |-> cmds, panic |-> FALSE]

Crash(mm) == [m |-> mm, cmd |-> {}, panic |-> TRUE]

\* list[i] of Go, i counted from 0
At(list, i) == list[i + 1]

InRange(list, i) == i >= 0 /\ i < Len(list)

\* the rendered text block of an object
Details(kind, obj) == [kind |-> kind, obj |-> obj]

NoDetails == Details("", NoObj)

\* a text that is not an object's details (logs, host logs, container logs)
Text(what) == Details(what, NoObj)

CharLimit == 3

Digits == {"2"}

\* the keys that are runes; the input field stores a rune that is no digit as "x"
Runes == {"q", "k", "j", "l", "h", "d", "y", "Y", "n", "N", "L", "S", "X",
          "H", "D", "?", "r", "A", "Q", "2", "x"}

\* textinput.Model.Update for a key: a rune is appended up to CharLimit,
\* backspace deletes the last character, every other key leaves the value
textInputUpdate(value, key) ==
    IF key \in Runes
    THEN IF Len(value) < CharLimit
         THEN Append(value, IF key \in Digits THEN key ELSE "x")
         ELSE value
    ELSE IF key = "backspace" /\ Len(value) > 0
         THEN SubSeq(value, 1, Len(value) - 1)
         ELSE value

RECURSIVE DigitsValue(_)
DigitsValue(value) ==
    IF value = <<>> THEN 0
    ELSE 10 * DigitsValue(SubSeq(value, 1, Len(value) - 1))
         + (IF value[Len(value)] = "2" THEN 2 ELSE 0)

\* strconv.Atoi: err == nil
AtoiOk(value) == Len(value) > 0 /\ \A i \in 1..Len(value) : value[i] \in Digits

\* strconv.Atoi: the number
Atoi(value) == DigitsValue(value)

(***************************************************************************)
(* Variant A (src/main.go lines 1-1867).                                   *)
(***************************************************************************)
\* initialModel: resourceTypes, hostLogTypes, hostTabs
resourceTypesA ==
    <<"Cluster Dashboard", "Host Dashboard", "Namespaces", "Nodes", "Pods",
      "Deployments", "StatefulSets", "DaemonSets", "Services",
      "PersistentVolumeClaims", "PersistentVolumes", "NetworkPolicies", "Events">>

hostLogTypes == <<"System Logs", "Kubelet Logs", "Docker Logs", "dmesg">>

hostTabs == <<"Host Metrics", "System Logs", "Application Logs">>

\* the screens whose case in Update names a list of the model
ListViewsA ==
    {"viewNodes", "viewPods", "viewPVCs", "viewPVs", "viewDeployments",
     "viewStatefulSets", "viewDaemonSets", "viewServices",
     "viewNetworkPolicies", "viewEvents", "viewNamespaces"}

\* the screen each entry of the resource menu opens
MenuViewA ==
    [Nodes |-> "viewNodes", Pods |-> "viewPods",
     PersistentVolumeClaims |-> "viewPVCs", PersistentVolumes |-> "viewPVs",
     Deployments |-> "viewDeployments", StatefulSets |-> "viewStatefulSets",
     DaemonSets |-> "viewDaemonSets", Services |-> "viewServices",
     NetworkPolicies |-> "viewNetworkPolicies", Events |-> "viewEvents",
     Namespaces |-> "viewNamespaces"]

setView(mm, view) ==
    [mm EXCEPT !.previousView = mm.view, !.view = view, !.cursor = 0]

\* a faulty tickMsg case: the tick clears the error
tickMsgClearingA(mm) == Ret([mm EXCEPT !.err = FALSE], {doTick})

\* a faulty tickMsg case: a screen without a fetch lets the timer end
tickMsgNoTimerA(mm) ==
    IF mm.view \in ListViewsA
    THEN Ret(mm, {getList(KindOfView[mm.view], mm.selectedNamespace)})
    ELSE IF mm.view = "viewDashboard" THEN Ret(mm, {getDashboardMetrics})
    ELSE IF mm.view = "viewHostDashboard" THEN Ret(mm, {getHostMetrics})
    ELSE Ret(mm, {})

\* case tickMsg
tickMsgA(mm) ==
    IF mm.view \in ListViewsA
    THEN Ret(mm, {getList(KindOfView[mm.view], mm.selectedNamespace)})
    ELSE IF mm.view = "viewDashboard" THEN Ret(mm, {getDashboardMetrics})
    ELSE IF mm.view = "viewHostDashboard" THEN Ret(mm, {getHostMetrics})
    ELSE Ret(mm, {doTick})

\* case nodesMsg, podsMsg, pvcsMsg, ..., namespacesMsg
listMsgA(mm, msg) ==
    LET m1 == [mm EXCEPT !.list[msg.kind] = msg.list]
        m2 == IF msg.kind = "nodes" THEN [m1 EXCEPT !.nodeMetrics = msg.metrics]
              ELSE IF msg.kind = "pods" THEN [m1 EXCEPT !.podMetrics = msg.metrics]
              ELSE m1
    IN Ret(m2, {})

\* case logsMsg, hostLogsMsg, containerLogsMsg
textMsgA(mm, msg) == Ret([mm EXCEPT !.details = Text(msg.type)], {})

\* case yamlMsg
yamlMsgA(mm, msg) == Ret([mm EXCEPT !.yamlContent = msg.yaml], {})

\* case appLogsMsg
appLogsMsgA(mm, msg) == Ret([mm EXCEPT !.containers = msg.list], {})

\* case dashboardMsg
dashboardMsgA(mm, msg) == Ret([mm EXCEPT !.dashboard = msg.agg], {})

\* case scaleMsg
scaleMsgA(mm) ==
    LET m1 == setView(mm, mm.previousView)
    IN IF m1.view = "viewDeployments"
       THEN Ret(m1, {getList("deployments", m1.selectedNamespace)})
       ELSE Ret(m1, {})

\* case podDeletedMsg
podDeletedMsgA(mm) ==
    LET m1 == setView(mm, "viewPods")
    IN Ret(m1, {getList("pods", m1.selectedNamespace)})

\* case errMsg
errMsgA(mm) == Ret([mm EXCEPT !.err = TRUE], {})

\* case tea.KeyMsg, if m.view == viewScaling
scalingKeyA(mm, key) ==
    IF key = "enter" /\ AtoiOk(mm.textInput) /\ mm.previousView = "viewDeployments"
    THEN IF InRange(mm.list["deployments"], mm.cursor)
         THEN LET deployment == At(mm.list["deployments"], mm.cursor)
              IN Ret(mm, {scaleDeployment(deployment.ns, deployment.name,
                                          Atoi(mm.textInput))})
         ELSE Crash(mm)
    ELSE IF key \in {"q", "esc"}
    THEN Ret(setView(mm, mm.previousView), {})
    ELSE Ret([mm EXCEPT !.textInput = textInputUpdate(@, key)], {})

\* a faulty viewConfirmDelete case: cancelling always opens the pod list
confirmDeleteKeyToPodsA(mm, key) ==
    IF key \in {"n", "N", "q", "esc"} THEN Ret(setView(mm, "viewPods"), {})
    ELSE Ret(mm, {})

\* case tea.KeyMsg, if m.view == viewConfirmDelete
confirmDeleteKeyA(mm, key) ==
    IF key \in {"y", "Y"}
    THEN IF mm.previousView = "viewPods"
         THEN IF InRange(mm.list["pods"], mm.cursor)
              THEN LET pod == At(mm.list["pods"], mm.cursor)
                   IN Ret(mm, {deletePod(pod.ns, pod.name)})
              ELSE Crash(mm)
         ELSE Ret(mm, {})
    ELSE IF key \in {"n", "N", "q", "esc"}
    THEN Ret(setView(mm, mm.previousView), {})
    ELSE Ret(mm, {})

\* a faulty "down" case of the list screens: the bound is off by one
downKeyPastEndA(mm) ==
    LET n == IF mm.view = "viewResourceMenu" THEN Len(resourceTypesA)
             ELSE IF mm.view \in ListViewsA THEN Len(mm.list[KindOfView[mm.view]]) + 1
             ELSE 0
    IN Ret(IF mm.cursor < n - 1 THEN [mm EXCEPT !.cursor = @ + 1] ELSE mm, {})

\* case "down", "j"
downKeyA(mm) ==
    LET n == IF mm.view = "viewResourceMenu" THEN Len(resourceTypesA)
             ELSE IF mm.view \in ListViewsA THEN Len(mm.list[KindOfView[mm.view]])
             ELSE IF mm.view = "viewHostDashboard"
             THEN IF At(hostTabs, mm.activeHostTab) = "System Logs"
                  THEN Len(hostLogTypes)
                  ELSE IF At(hostTabs, mm.activeHostTab) = "Application Logs"
                  THEN Len(mm.containers)
                  ELSE 0
             ELSE 0
    IN Ret(IF mm.cursor < n - 1 THEN [mm EXCEPT !.cursor = @ + 1] ELSE mm, {})

\* case "right", "l"
rightKeyA(mm) ==
    IF mm.view = "viewHostDashboard"
    THEN LET m1 == [mm EXCEPT !.activeHostTab = (@ + 1) % Len(hostTabs),
                              !.details = NoDetails, !.cursor = 0]
         IN Ret(m1, IF At(hostTabs, m1.activeHostTab) = "Application Logs"
                    THEN {getContainers} ELSE {})
    ELSE Ret(mm, {})

\* case "left", "h"
leftKeyA(mm) ==
    IF mm.view = "viewHostDashboard"
    THEN Ret([mm EXCEPT !.activeHostTab = (@ - 1 + Len(hostTabs)) % Len(hostTabs)], {})
    ELSE Ret(mm, {})

\* case "d"
detailsKeyA(mm) ==
    IF mm.view \in ListViewsA \ {"viewNamespaces"}
    THEN LET kind == KindOfView[mm.view]
         IN IF InRange(mm.list[kind], mm.cursor)
            THEN Ret(setView([mm EXCEPT !.details =
                                 Details(kind, At(mm.list[kind], mm.cursor))],
                             "viewDetails"), {})
            ELSE Crash(mm)
    ELSE Ret(setView(mm, "viewDetails"), {})

\* case "y"
yamlKeyA(mm) ==
    LET viewToCheck == IF mm.view = "viewDetails" THEN mm.previousView ELSE mm.view
    IN IF viewToCheck \in ListViewsA \ {"viewEvents"}
       THEN LET kind == KindOfView[viewToCheck]
            IN IF InRange(mm.list[kind], mm.cursor)
               THEN LET o == At(mm.list[kind], mm.cursor)
                    IN Ret(setView(mm, "viewYAML"),
                           {getResourceYAML(IF kind \in ClusterScoped THEN "" ELSE o.ns,
                                            o.name, YAMLKind[kind])})
               ELSE Crash(mm)
       ELSE Ret(mm, {})

\* case "L"
logsKeyA(mm) ==
    IF mm.view = "viewPods" \/ (mm.view = "viewDetails" /\ mm.previousView = "viewPods")
    THEN IF InRange(mm.list["pods"], mm.cursor)
         THEN LET pod == At(mm.list["pods"], mm.cursor)
              IN Ret(setView(mm, "viewLogs"), {getLogs(pod.ns, pod.name)})
         ELSE Crash(mm)
    ELSE Ret(mm, {})

\* case "S"
scaleKeyA(mm) ==
    IF mm.view = "viewDeployments"
       \/ (mm.view = "viewDetails" /\ mm.previousView = "viewDeployments")
    THEN Ret(setView([mm EXCEPT !.textInput = <<>>], "viewScaling"), {})
    ELSE Ret(mm, {})

\* case "X"
deleteKeyA(mm) ==
    IF mm.view = "viewPods" \/ (mm.view = "viewDetails" /\ mm.previousView = "viewPods")
    THEN Ret(setView(mm, "viewConfirmDelete"), {})
    ELSE Ret(mm, {})

\* case "enter"
enterKeyA(mm) ==
    IF mm.view \in ListViewsA \ {"viewNamespaces"}
    THEN LET kind == KindOfView[mm.view]
         IN IF Len(mm.list[kind]) > mm.cursor
            THEN Ret(setView([mm EXCEPT !.details =
                                 Details(kind, At(mm.list[kind], mm.cursor))],
                             "viewDetails"), {})
            ELSE Ret(mm, {})
    ELSE IF mm.view = "viewResourceMenu"
    THEN IF InRange(resourceTypesA, mm.cursor)
         THEN LET selected == At(resourceTypesA, mm.cursor)
              IN IF selected = "Cluster Dashboard"
                 THEN Ret(setView(mm, "viewDashboard"), {getDashboardMetrics})
                 ELSE IF selected = "Host Dashboard"
                 THEN Ret(setView(mm, "viewHostDashboard"), {getHostMetrics})
                 ELSE LET m1 == setView(mm, MenuViewA[selected])
                      IN Ret(m1, {getList(KindOfView[m1.view], m1.selectedNamespace)})
         ELSE Crash(mm)
    ELSE IF mm.view = "viewNamespaces"
    THEN IF mm.cursor = 0
         THEN Ret(setView([mm EXCEPT !.selectedNamespace = ""], "viewResourceMenu"), {})
         ELSE IF InRange(mm.list["namespaces"], mm.cursor - 1)
         THEN Ret(setView([mm EXCEPT !.selectedNamespace =
                              At(mm.list["namespaces"], mm.cursor - 1).name],
                          "viewResourceMenu"), {})
         ELSE Crash(mm)
    ELSE IF mm.view = "viewHostDashboard"
    THEN IF At(hostTabs, mm.activeHostTab) = "System Logs"
         THEN IF InRange(hostLogTypes, mm.cursor)
              THEN Ret(mm, {getHostLogs(At(hostLogTypes, mm.cursor))})
              ELSE Crash(mm)
         ELSE IF At(hostTabs, mm.activeHostTab) = "Application Logs"
                 /\ Len(mm.containers) > 0
         THEN IF InRange(mm.containers, mm.cursor)
              THEN Ret(mm, {getContainerLogs(At(mm.containers, mm.cursor).name)})
              ELSE Crash(mm)
         ELSE Ret(mm, {})
    ELSE Ret(mm, {})

\* case tea.KeyMsg
KeyMsgA(mm, key) ==
    IF mm.view = "viewScaling" THEN scalingKeyA(mm, key)
    ELSE IF mm.view = "viewConfirmDelete" THEN confirmDeleteKeyA(mm, key)
    ELSE IF key \in {"q", "ctrl+c"}
    THEN IF mm.view # "viewResourceMenu"
         THEN Ret(setView(mm, "viewResourceMenu"), {})
         ELSE Ret(mm, {Quit})
    ELSE IF key \in {"up", "k"}
    THEN Ret(IF mm.cursor > 0 THEN [mm EXCEPT !.cursor = @ - 1] ELSE mm, {})
    ELSE IF key \in {"down", "j"} THEN downKeyA(mm)
    ELSE IF key \in {"right", "l"} THEN rightKeyA(mm)
    ELSE IF key \in {"left", "h"} THEN leftKeyA(mm)
    ELSE IF key = "d" THEN detailsKeyA(mm)
    ELSE IF key = "y" THEN yamlKeyA(mm)
    ELSE IF key = "L" THEN logsKeyA(mm)
    ELSE IF key = "S" THEN scaleKeyA(mm)
    ELSE IF key = "X" THEN deleteKeyA(mm)
    ELSE IF key = "esc" THEN Ret(setView(mm, mm.previousView), {})
    ELSE IF key = "enter" THEN enterKeyA(mm)
    ELSE IF key = "H" THEN Ret(setView(mm, "viewHostDashboard"), {getHostMetrics})
    ELSE IF key = "D" THEN Ret(setView(mm, "viewDashboard"), {getDashboardMetrics})
    ELSE Ret(mm, {})

\* func (m model) Update(msg tea.Msg)
UpdateA(mm, msg) ==
    IF msg.type = "WindowSizeMsg" THEN Ret([mm EXCEPT !.ready = TRUE], {})
    ELSE IF msg.type = "tickMsg" THEN tickMsgA(mm)
    ELSE IF msg.type = "listMsg" THEN listMsgA(mm, msg)
    ELSE IF msg.type \in {"logsMsg", "hostLogsMsg", "containerLogsMsg"}
    THEN textMsgA(mm, msg)
    ELSE IF msg.type = "hostMsg" THEN Ret(mm, {})
    ELSE IF msg.type = "appLogsMsg" THEN appLogsMsgA(mm, msg)
    ELSE IF msg.type = "yamlMsg" THEN yamlMsgA(mm, msg)
    ELSE IF msg.type = "dashboardMsg" THEN dashboardMsgA(mm, msg)
    ELSE IF msg.type = "scaleMsg" THEN scaleMsgA(mm)
    ELSE IF msg.type = "podDeletedMsg" THEN podDeletedMsgA(mm)
    ELSE IF msg.type = "errMsg" THEN errMsgA(mm)
    ELSE IF msg.type = "KeyMsg" THEN KeyMsgA(mm, msg.key)
    ELSE Ret(mm, {})

\* func (m model) View(): whether rendering indexes a list out of range
ViewPanicsA(mm) ==
    /\ ~mm.err
    /\ mm.ready
    /\ mm.view = "viewConfirmDelete"
    /\ ~InRange(mm.list["pods"], mm.cursor)

(***************************************************************************)
(* Variant B (src/main.go lines 1869-3881).                                *)
(***************************************************************************)
\* main: initialModel.resourceTypes
resourceTypesB ==
    <<"Nodes", "Pods", "Deployments", "StatefulSets", "DaemonSets", "Services",
      "PVCs", "PVs", "Network Policies", "Events", "Alerts", "Resource Quotas">>

\* the screen each entry of the resource menu opens
MenuViewB ==
    ("Nodes" :> "viewNodes") @@ ("Pods" :> "viewPods")
    @@ ("Deployments" :> "viewDeployments") @@ ("StatefulSets" :> "viewStatefulSets")
    @@ ("DaemonSets" :> "viewDaemonSets") @@ ("Services" :> "viewServices")
    @@ ("PVCs" :> "viewPVCs") @@ ("PVs" :> "viewPVs")
    @@ ("Network Policies" :> "viewNetworkPolicies") @@ ("Events" :> "viewEvents")
    @@ ("Alerts" :> "viewAlerts") @@ ("Resource Quotas" :> "viewResourceQuotas")

\* the screens whose tick issues a list call
ListViewsB ==
    {"viewNodes", "viewPods", "viewPVCs", "viewPVs", "viewDeployments",
     "viewStatefulSets", "viewDaemonSets", "viewServices",
     "viewNetworkPolicies", "viewEvents", "viewAlerts", "viewResourceQuotas"}

\* the screens whose selected object the details and YAML screens show
DetailViewsB == ListViewsB \ {"viewAlerts", "viewResourceQuotas"}

\* resourceQuotasMsg: one line per used resource of each quota; the quotas
\* of the model use one resource each
QuotaLines(quotas) == quotas

\* headerView: the title indexes m.pods or m.deployments on three screens
headerViewPanics(mm) ==
    \/ mm.view \in {"viewLogs", "viewConfirmDelete"}
         /\ ~InRange(mm.list["pods"], mm.cursor)
    \/ mm.view = "viewScaling" /\ ~InRange(mm.list["deployments"], mm.cursor)

\* case tea.WindowSizeMsg
WindowSizeMsgB(mm) ==
    IF headerViewPanics(mm) THEN Crash(mm) ELSE Ret([mm EXCEPT !.ready = TRUE], {})

\* a faulty tickMsg case: the fetch lists all namespaces
tickMsgAllNamespacesB(mm) ==
    IF mm.view \in ListViewsB
    THEN Ret(mm, {getList(KindOfView[mm.view], "")})
    ELSE IF mm.view = "viewDashboard" THEN Ret(mm, {getDashboardMetrics})
    ELSE Ret(mm, {doTick})

\* case tickMsg
tickMsgB(mm) ==
    IF mm.view \in ListViewsB
    THEN Ret(mm, {getList(KindOfView[mm.view], mm.selectedNamespace)})
    ELSE IF mm.view = "viewDashboard" THEN Ret(mm, {getDashboardMetrics})
    ELSE Ret(mm, {doTick})

\* case logsMsg
logsMsgB(mm) == Ret([mm EXCEPT !.view = "viewLogs"], {})

\* case scaleMsg
scaleMsgB(mm) ==
    Ret([mm EXCEPT !.view = "viewDetails"],
        {getList("deployments", mm.selectedNamespace)})

\* case podDeletedMsg
podDeletedMsgB(mm) ==
    Ret([mm EXCEPT !.view = "viewPods"], {getList("pods", mm.selectedNamespace)})

\* case namespacesMsg
namespacesMsgB(mm, msg) ==
    Ret([mm EXCEPT !.list["namespaces"] = msg.list, !.cursor = 0], {})

\* case nodesMsg, podsMsg
clampedListMsgB(mm, msg) ==
    LET m1 == [mm EXCEPT !.list[msg.kind] = msg.list]
        m2 == IF msg.kind = "nodes" THEN [m1 EXCEPT !.nodeMetrics = msg.metrics]
              ELSE [m1 EXCEPT !.podMetrics = msg.metrics]
        m3 == IF m2.cursor >= Len(msg.list) THEN [m2 EXCEPT !.cursor = 0] ELSE m2
    IN Ret(m3, {doTick})

\* case pvcsMsg, pvsMsg, deploymentsMsg, ..., alertsMsg, resourceQuotasMsg
resetListMsgB(mm, msg) ==
    LET m1 == [mm EXCEPT !.list[msg.kind] = msg.list, !.cursor = 0]
        m2 == IF msg.kind = "resourcequotas"
              THEN [m1 EXCEPT !.resourceQuotaLines = QuotaLines(msg.list)]
              ELSE m1
    IN Ret(m2, {doTick})

\* a faulty errMsg case: the failure drops the snapshots
errMsgDroppingB(mm) ==
    Ret([mm EXCEPT !.err = TRUE, !.list = [k \in Kinds |-> <<>>],
                   !.nodeMetrics = {}, !.podMetrics = {}], {})

\* case errMsg
errMsgB(mm) == Ret([mm EXCEPT !.err = TRUE], {})

\* case yamlMsg
yamlMsgB(mm, msg) ==
    Ret([mm EXCEPT !.yamlContent = msg.yaml, !.view = "viewYAML"], {})

\* case dashboardMsg
dashboardMsgB(mm, msg) == Ret([mm EXCEPT !.dashboard = msg.agg], {doTick})

\* a faulty viewConfirmDelete case: every key that does not cancel confirms
confirmDeleteAnyKeyB(mm, key) ==
    IF key \in {"n", "N", "esc"}
    THEN Ret([mm EXCEPT !.view = "viewDetails"], {})
    ELSE IF InRange(mm.list["pods"], mm.cursor)
    THEN LET pod == At(mm.list["pods"], mm.cursor)
         IN Ret(mm, {deletePod(pod.ns, pod.name)})
    ELSE Crash(mm)

\* case tea.KeyMsg, if m.view == viewConfirmDelete
confirmDeleteKeyB(mm, key) ==
    IF key \in {"y", "Y"}
    THEN IF InRange(mm.list["pods"], mm.cursor)
         THEN LET pod == At(mm.list["pods"], mm.cursor)
              IN Ret(mm, {deletePod(pod.ns, pod.name)})
         ELSE Crash(mm)
    ELSE IF key \in {"n", "N", "esc"}
    THEN Ret([mm EXCEPT !.view = "viewDetails"], {})
    ELSE Ret(mm, {})

\* a faulty viewScaling case: escape opens previousView, the deployment list
scalingKeyToListB(mm, key) ==
    IF key = "esc"
    THEN Ret([mm EXCEPT !.view = mm.previousView, !.textInput = <<>>], {})
    ELSE IF key = "enter" THEN Ret(mm, {})
    ELSE Ret([mm EXCEPT !.textInput = textInputUpdate(@, key)], {})

\* case tea.KeyMsg, if m.view == viewScaling
scalingKeyB(mm, key) ==
    IF key = "enter"
    THEN IF AtoiOk(mm.textInput)
         THEN IF InRange(mm.list["deployments"], mm.cursor)
              THEN LET d == At(mm.list["deployments"], mm.cursor)
                   IN Ret(mm, {scaleDeployment(d.ns, d.name, Atoi(mm.textInput))})
              ELSE Crash(mm)
         ELSE Ret(mm, {})
    ELSE IF key = "esc"
    THEN Ret([mm EXCEPT !.view = "viewDetails", !.textInput = <<>>], {})
    ELSE Ret([mm EXCEPT !.textInput = textInputUpdate(@, key)], {})

\* case tea.KeyMsg, if m.view == viewLogs, if m.view == viewYAML
viewportKeyB(mm, key) ==
    IF key \in {"esc", "backspace", "q"}
    THEN Ret([mm EXCEPT !.view = "viewDetails"], {})
    ELSE Ret(mm, {})

\* case tea.KeyMsg, if m.view == viewDetails
detailsKeyB(mm, key) ==
    IF key = "d" /\ mm.previousView = "viewPods"
    THEN Ret([mm EXCEPT !.view = "viewConfirmDelete"], {})
    ELSE IF key = "r" /\ mm.previousView = "viewDeployments"
    THEN IF InRange(mm.list["deployments"], mm.cursor)
         THEN Ret([mm EXCEPT !.view = "viewScaling",
                             !.textInput =
                                 <<Replicas(At(mm.list["deployments"], mm.cursor))>>], {})
         ELSE Crash(mm)
    ELSE IF key = "l" /\ mm.previousView = "viewPods"
    THEN IF InRange(mm.list["pods"], mm.cursor)
         THEN LET pod == At(mm.list["pods"], mm.cursor)
              IN Ret(mm, {getLogs(pod.ns, pod.name)})
         ELSE Crash(mm)
    ELSE IF key = "y" /\ mm.previousView \in DetailViewsB
    THEN LET kind == KindOfView[mm.previousView]
         IN IF InRange(mm.list[kind], mm.cursor)
            THEN LET o == At(mm.list[kind], mm.cursor)
                 IN Ret(mm, {getResourceYAML(IF kind \in ClusterScoped THEN "" ELSE o.ns,
                                             o.name, YAMLKind[kind])})
            ELSE Crash(mm)
    ELSE IF key \in {"esc", "backspace"}
    THEN Ret([mm EXCEPT !.view = mm.previousView], {})
    ELSE Ret(mm, {})

\* a faulty viewHelp case: 'q' is left to the last switch, which quits
helpKeyFallsThroughB(mm, key) ==
    IF key \in {"esc", "backspace", "?"}
    THEN Ret([mm EXCEPT !.view = mm.previousView], {})
    ELSE IF key \in {"q", "ctrl+c"} THEN Ret(mm, {Quit})
    ELSE Ret(mm, {})

\* case tea.KeyMsg, if m.view == viewHelp
helpKeyB(mm, key) ==
    IF key \in {"esc", "backspace", "q", "?"}
    THEN Ret([mm EXCEPT !.view = mm.previousView], {})
    ELSE Ret(mm, {})

\* a faulty viewNamespaces case: enter does not run the tickMsg case
namespacesKeyNoFetchB(mm, key) ==
    IF key = "enter"
    THEN IF mm.cursor = 0 \/ InRange(mm.list["namespaces"], mm.cursor - 1)
         THEN Ret([mm EXCEPT
                     !.selectedNamespace =
                         IF mm.cursor = 0 THEN ""
                         ELSE At(mm.list["namespaces"], mm.cursor - 1).name,
                     !.view = mm.previousView], {})
         ELSE Crash(mm)
    ELSE IF key \in {"esc", "backspace", "N"}
    THEN Ret([mm EXCEPT !.view = mm.previousView], {})
    ELSE Ret(mm, {})

\* case tea.KeyMsg, if m.view == viewNamespaces
namespacesKeyB(mm, key) ==
    IF key = "enter"
    THEN IF mm.cursor = 0 \/ InRange(mm.list["namespaces"], mm.cursor - 1)
         THEN LET m1 == [mm EXCEPT
                           !.selectedNamespace =
                               IF mm.cursor = 0 THEN ""
                               ELSE At(mm.list["namespaces"], mm.cursor - 1).name,
                           !.view = mm.previousView]
              IN tickMsgB(m1)
         ELSE Crash(mm)
    ELSE IF key \in {"esc", "backspace", "N"}
    THEN Ret([mm EXCEPT !.view = mm.previousView], {})
    ELSE IF key = "up"
    THEN Ret(IF mm.cursor > 0 THEN [mm EXCEPT !.cursor = @ - 1] ELSE mm, {})
    ELSE IF key = "down"
    THEN Ret(IF mm.cursor < Len(mm.list["namespaces"])
             THEN [mm EXCEPT !.cursor = @ + 1] ELSE mm, {})
    ELSE Ret(mm, {})

\* case tea.KeyMsg, if m.view == viewResourceMenu
resourceMenuKeyB(mm, key) ==
    IF key = "enter"
    THEN IF InRange(resourceTypesB, mm.cursor)
         THEN LET m1 == [mm EXCEPT !.view = MenuViewB[At(resourceTypesB, mm.cursor)]]
              IN Ret(m1, {getList(KindOfView[m1.view], m1.selectedNamespace)})
         ELSE Crash(mm)
    ELSE IF key \in {"esc", "backspace", "r"}
    THEN Ret([mm EXCEPT !.view = mm.previousView], {})
    ELSE IF key = "up"
    THEN Ret(IF mm.cursor > 0 THEN [mm EXCEPT !.cursor = @ - 1] ELSE mm, {})
    ELSE IF key = "down"
    THEN Ret(IF mm.cursor < Len(resourceTypesB) - 1
             THEN [mm EXCEPT !.cursor = @ + 1] ELSE mm, {})
    ELSE Ret(mm, {})

\* case "down", "j" of the last switch
downKeyB(mm) ==
    LET listLen == IF mm.view \in DetailViewsB THEN Len(mm.list[KindOfView[mm.view]])
                   ELSE IF mm.view = "viewResourceQuotas"
                   THEN Len(mm.resourceQuotaLines)
                   ELSE 0
    IN Ret(IF mm.cursor < listLen - 1 THEN [mm EXCEPT !.cursor = @ + 1] ELSE mm, {})

\* case "enter" of the last switch
enterKeyB(mm) ==
    LET m1 == [mm EXCEPT !.previousView = mm.view, !.view = "viewDetails"]
    IN IF mm.view \in DetailViewsB
       THEN LET kind == KindOfView[mm.view]
            IN IF InRange(mm.list[kind], mm.cursor)
               THEN Ret([m1 EXCEPT !.details =
                            Details(kind, At(mm.list[kind], mm.cursor))], {})
               ELSE Crash(mm)
       ELSE Ret(m1, {})

\* a faulty switch to another screen: previousView is not recorded
gotoForgettingB(mm, view) == [mm EXCEPT !.view = view]

\* the switch to another screen of the last switch of case tea.KeyMsg
gotoB(mm, view) == [mm EXCEPT !.previousView = mm.view, !.view = view]

\* case tea.KeyMsg
KeyMsgB(mm, key) ==
    IF mm.view = "viewConfirmDelete" THEN confirmDeleteKeyB(mm, key)
    ELSE IF mm.view = "viewScaling" THEN scalingKeyB(mm, key)
    ELSE IF mm.view \in {"viewLogs", "viewYAML"} THEN viewportKeyB(mm, key)
    ELSE IF mm.view = "viewDetails" THEN detailsKeyB(mm, key)
    ELSE IF mm.view = "viewHelp" THEN helpKeyB(mm, key)
    ELSE IF mm.view = "viewNamespaces" THEN namespacesKeyB(mm, key)
    ELSE IF mm.view = "viewResourceMenu" THEN resourceMenuKeyB(mm, key)
    ELSE IF key = "?" THEN Ret(gotoB(mm, "viewHelp"), {})
    ELSE IF key \in {"q", "ctrl+c"} THEN Ret(mm, {Quit})
    ELSE IF key = "r" THEN Ret([gotoB(mm, "viewResourceMenu") EXCEPT !.cursor = 0], {})
    ELSE IF key = "N"
    THEN Ret(gotoB(mm, "viewNamespaces"), {getList("namespaces", "")})
    ELSE IF key = "D" THEN Ret(gotoB(mm, "viewDashboard"), {getDashboardMetrics})
    ELSE IF key = "A"
    THEN Ret(gotoB(mm, "viewAlerts"), {getList("alerts", mm.selectedNamespace)})
    ELSE IF key = "Q"
    THEN Ret(gotoB(mm, "viewResourceQuotas"),
             {getList("resourcequotas", mm.selectedNamespace)})
    ELSE IF key = "up"
    THEN Ret(IF mm.cursor > 0 THEN [mm EXCEPT !.cursor = @ - 1] ELSE mm, {})
    ELSE IF key \in {"down", "j"} THEN downKeyB(mm)
    ELSE IF key = "enter" THEN enterKeyB(mm)
    ELSE Ret(mm, {})

\* func (m model) Update(msg tea.Msg)
UpdateB(mm, msg) ==
    IF msg.type = "WindowSizeMsg" THEN WindowSizeMsgB(mm)
    ELSE IF msg.type = "tickMsg" THEN tickMsgB(mm)
    ELSE IF msg.type = "logsMsg" THEN logsMsgB(mm)
    ELSE IF msg.type = "scaleMsg" THEN scaleMsgB(mm)
    ELSE IF msg.type = "podDeletedMsg" THEN podDeletedMsgB(mm)
    ELSE IF msg.type = "listMsg"
    THEN IF msg.kind = "namespaces" THEN namespacesMsgB(mm, msg)
         ELSE IF msg.kind \in {"nodes", "pods"} THEN clampedListMsgB(mm, msg)
         ELSE resetListMsgB(mm, msg)
    ELSE IF msg.type = "errMsg" THEN errMsgB(mm)
    ELSE IF msg.type = "yamlMsg" THEN yamlMsgB(mm, msg)
    ELSE IF msg.type = "dashboardMsg" THEN dashboardMsgB(mm, msg)
    ELSE IF msg.type = "KeyMsg" THEN KeyMsgB(mm, msg.key)
    ELSE Ret(mm, {})

\* func (m model) View(): whether rendering indexes a list out of range
ViewPanicsB(mm) == mm.ready /\ ~mm.err /\ headerViewPanics(mm)

(***************************************************************************)
(* The program: construction, the event loop, and the cluster's answers.   *)
(***************************************************************************)
\* initialModel (variant A) and the model literal of main (variant B); a
\* field that is not set holds the zero value (viewNodes == 0)
initialModel(v) ==
    [view |-> IF v = "A" THEN "viewResourceMenu" ELSE "viewNodes",
     previousView |-> "viewNodes",
     cursor |-> 0,
     list |-> [k \in Kinds |-> <<>>],
     nodeMetrics |-> {},
     podMetrics |-> {},
     resourceQuotaLines |-> <<>>,
     selectedNamespace |-> "",
     details |-> NoDetails,
     yamlContent |-> NoDetails,
     dashboard |-> "",
     err |-> FALSE,
     textInput |-> <<>>,
     activeHostTab |-> 0,
     containers |-> <<>>,
     ready |-> FALSE]

\* func (m model) Init() tea.Cmd
InitCmd(v) ==
    IF v = "A" THEN {doTick, getDashboardMetrics, getHostMetrics}
    ELSE {getList("nodes", ""), doTick}

Update(v, mm, msg) == IF v = "A" THEN UpdateA(mm, msg) ELSE UpdateB(mm, msg)

ViewPanics(v, mm) == IF v = "A" THEN ViewPanicsA(mm) ELSE ViewPanicsB(mm)

\* the keys the user presses: the keys Update names, and a digit, a rune that
\* is no digit and backspace for the replicas input
Keys(v) ==
    {"2", "x", "backspace"}
    \cup IF v = "A"
         THEN {"enter", "q", "esc", "y", "Y", "n", "N", "ctrl+c", "up", "k", "down",
               "j", "right", "l", "left", "h", "d", "L", "S", "X", "H", "D"}
         ELSE {"y", "Y", "n", "N", "esc", "enter", "q", "d", "r", "l", "?", "up",
               "down", "j", "ctrl+c", "D", "A", "Q"}

\* The screens the user opens in one session, besides the screen the program
\* starts on.  Update is modelled for every screen; a session bounds the
\* user's input, not the program.
NamespaceSession == {"viewResourceMenu", "viewPods", "viewNamespaces"}

PodSession == {"viewResourceMenu", "viewPods", "viewDetails", "viewConfirmDelete"}

DeploymentSession ==
    {"viewResourceMenu", "viewDeployments", "viewDetails", "viewScaling"}

ViewerSession ==
    {"viewResourceMenu", "viewPods", "viewDetails", "viewLogs", "viewYAML", "viewHelp"}

DashboardSession ==
    {"viewResourceMenu", "viewPods", "viewDashboard", "viewHelp"}

Sessions ==
    {NamespaceSession, PodSession, DeploymentSession, ViewerSession, DashboardSession}

KeyMsg(key) == [type |-> "KeyMsg", key |-> key]

\* the objects of each kind the cluster holds; it holds none of the kinds
\* that are not named here
UniverseOf(kind) ==
    IF kind = "nodes" THEN NodeUniverse
    ELSE IF kind = "pods" THEN PodUniverse
    ELSE IF kind = "deployments" THEN DeploymentUniverse
    ELSE IF kind = "namespaces" THEN NamespaceUniverse
    ELSE <<>>

\* the message a list call returns when the list call succeeds
ListResults(kind, ns) ==
    UNION {{[type |-> "listMsg", kind |-> kind, list |-> l, metrics |-> mt] :
               mt \in IF kind \in {"nodes", "pods"} THEN MetricsFor(l) ELSE {{}}} :
           l \in Listing(UniverseOf(kind), ns)}

\* getContainers: strings.Split never returns an empty slice
ContainerResults ==
    {[type |-> "appLogsMsg", list |-> l] :
        l \in {<<NoObj>>} \cup (Listing(ContainerUniverse, "") \ {<<>>})}

\* the messages command c can return when it does not fail
Results(c) ==
    IF c.type = "doTick" THEN {[type |-> "tickMsg"]}
    ELSE IF c.type = "getDashboardMetrics" THEN {[type |-> "dashboardMsg", agg |-> "agg"]}
    ELSE IF c.type = "getHostMetrics" THEN {[type |-> "hostMsg"]}
    ELSE IF c.type = "getContainers" THEN ContainerResults
    ELSE IF c.type = "getHostLogs" THEN {[type |-> "hostLogsMsg"]}
    ELSE IF c.type = "getContainerLogs" THEN {[type |-> "containerLogsMsg"]}
    ELSE IF c.type = "getLogs" THEN {[type |-> "logsMsg"]}
    ELSE IF c.type = "getResourceYAML"
    THEN {[type |-> "yamlMsg", yaml |-> Text("yaml")]}
    ELSE IF c.type = "deletePod" THEN {[type |-> "podDeletedMsg"]}
    ELSE IF c.type = "scaleDeployment" THEN {[type |-> "scaleMsg"]}
    ELSE ListResults(CHOOSE k \in Kinds : Getter[k] = c.type, c.ns)

\* the object a mutating key press is about: the one under the cursor of the
\* list, or the one whose details are displayed
Target(mm, kind, listView) ==
    IF mm.view = "viewDetails" THEN mm.details
    ELSE IF mm.view = listView /\ InRange(mm.list[kind], mm.cursor)
    THEN Details(kind, At(mm.list[kind], mm.cursor))
    ELSE NoDetails

\* History of the user's intent (no field of the program): the object that
\* was selected when the delete or scale key opened the confirmation or the
\* scaling screen; forgotten when that screen is left.
NextPending(v, mm, msg, next) ==
    IF next.view \notin {"viewConfirmDelete", "viewScaling"} THEN NoDetails
    ELSE IF next.view = mm.view THEN pending
    ELSE IF msg.type # "KeyMsg" THEN NoDetails
    ELSE IF next.view = "viewConfirmDelete" /\ msg.key = (IF v = "A" THEN "X" ELSE "d")
    THEN Target(mm, "pods", "viewPods")
    ELSE IF next.view = "viewScaling" /\ msg.key = (IF v = "A" THEN "S" ELSE "r")
    THEN Target(mm, "deployments", "viewDeployments")
    ELSE NoDetails

\* the screens opened from the details screen
SubScreens == {"viewLogs", "viewYAML", "viewScaling", "viewConfirmDelete"}

\* the keys that submit on a sub-screen instead of leaving it
SubmitKeys == {"y", "Y", "enter"}

\* History of the user's path (no field of the program): the list screen from
\* which the details screen was entered, remembered over round trips from the
\* details into a sub-screen that are left by a key that does not submit;
\* forgotten on every other change of screen and on every other key pressed
\* on the details screen.
NextOrigin(v, mm, msg, next) ==
    IF msg.type = "KeyMsg"
    THEN IF mm.view \in (IF v = "A" THEN ListViewsA ELSE ListViewsB)
            /\ next.view = "viewDetails"
         THEN mm.view
         ELSE IF origin = "" THEN ""
         ELSE IF mm.view = "viewDetails" /\ next.view \in SubScreens THEN origin
         ELSE IF mm.view = "viewDetails" /\ next.view = mm.view
                 /\ v = "B" /\ msg.key \in {"l", "y"}
         THEN origin
         ELSE IF mm.view \in SubScreens /\ next.view = mm.view THEN origin
         ELSE IF mm.view \in SubScreens /\ next.view = "viewDetails"
                 /\ msg.key \notin SubmitKeys
         THEN origin
         ELSE ""
    ELSE IF origin = "" THEN ""
    ELSE IF next.view = mm.view THEN origin
    ELSE IF mm.view = "viewDetails" /\ next.view \in {"viewLogs", "viewYAML"}
            /\ msg.type \in {"logsMsg", "yamlMsg"}
    THEN origin
    ELSE ""

\* one turn of the event loop: Update on msg, then View; `consumed` is the
\* command whose result msg is
Process(msg, consumed) ==
    /\ status = "running"
    /\ \E r \in {Update(variant, m, msg)}, rest \in {inflight (-) consumed} :
       LET issued == r.cmd \ {Quit}
       IN /\ issued # {} => BagCardinality(rest) + Cardinality(issued) <= MaxInFlight
          /\ msg.type # "WindowSizeMsg" => m.ready
          /\ r.m.view \in session \cup {m.view}
          /\ r.m.cursor <= MaxCursor
          /\ Len(r.m.textInput) <= MaxInput
          /\ m' = r.m
          /\ inflight' = rest (+) SetToBag(issued)
          /\ status' = IF r.panic \/ ViewPanics(variant, r.m) THEN "panic"
                       ELSE IF Quit \in r.cmd THEN "quit"
                       ELSE "running"
          /\ pending' = NextPending(variant, m, msg, r.m)
          /\ origin' = NextOrigin(variant, m, msg, r.m)
    /\ UNCHANGED <<variant, session, call>>

\* no command function has been called on its own
NoCall == [fn |-> "", out |-> <<>>]

Init ==
    /\ variant \in {"A", "B"}
    /\ session \in Sessions
    /\ m = initialModel(variant)
    /\ inflight = SetToBag(InitCmd(variant))
    /\ status = "running"
    /\ pending = NoDetails
    /\ origin = ""
    /\ call = NoCall

\* the terminal reports its size
WindowSize == Process([type |-> "WindowSizeMsg"], EmptyBag)

\* the user presses a key
KeyPress == \E key \in Keys(variant) : Process(KeyMsg(key), EmptyBag)

\* a doTick timer fires
Tick ==
    /\ BagIn(doTick, inflight)
    /\ Process([type |-> "tickMsg"], SetToBag({doTick}))

\* a command other than a timer completes
Complete ==
    \E c \in BagToSet(inflight) \ {doTick} :
        \E msg \in Results(c) : Process(msg, SetToBag({c}))

\* a command other than a timer fails
Fail ==
    \E c \in BagToSet(inflight) \ {doTick} :
        Process([type |-> "errMsg"], SetToBag({c}))

Next == WindowSize \/ KeyPress \/ Tick \/ Complete \/ Fail

Spec == Init /\ [][Next]_vars

(***************************************************************************)
(* Properties.  A property about what a handler does is stated over the    *)
(* reachable states: Update is applied to the state and to a message that  *)
(* can be delivered in it.                                                 *)
(***************************************************************************)
\* the results the commands in flight deliver when they succeed
Deliverable == UNION {Results(c) : c \in BagToSet(inflight) \ {doTick}}

\* the getPods calls in flight that were issued under another namespace
\* filter than the current one, while a getPods for the current one is out
StalePodFetches ==
    {c \in BagToSet(inflight) :
        /\ c.type = "getPods"
        /\ c.ns # m.selectedNamespace
        /\ BagIn(getList("pods", m.selectedNamespace), inflight)}

\* C1: a podsMsg of a getPods call issued under namespace filter X that is
\* delivered after selectedNamespace became Y # X and getPods was issued for
\* Y replaces neither m.pods nor m.podMetrics.
C1_StalePodsDiscarded ==
    status = "running" =>
        \A c \in StalePodFetches : \A msg \in Results(c) :
            LET r == Update(variant, m, msg)
            IN /\ r.m.list["pods"] = m.list["pods"]
               /\ r.m.podMetrics = m.podMetrics

\* C2: the pod named in the deletePod call that 'y' issues on the
\* confirmation screen is the pod that was under the cursor (whose details
\* were shown) when the delete key was pressed.
C2_DeleteTargetsSelectedPod ==
    (status = "running" /\ m.view = "viewConfirmDelete") =>
        \A key \in {"y", "Y"} : \A c \in Update(variant, m, KeyMsg(key)).cmd :
            c.type = "deletePod" => Details("pods", Obj(c.ns, c.name)) = pending

\* C3: the deployment named in the scaleDeployment call issued on submit is
\* the deployment that was under the cursor (whose details were shown) when
\* the scale key was pressed.
C3_ScaleTargetsSelectedDeployment ==
    (status = "running" /\ m.view = "viewScaling") =>
        \A c \in Update(variant, m, KeyMsg("enter")).cmd :
            c.type = "scaleDeployment" =>
                Details("deployments", Obj(c.ns, c.name)) = pending

\* C4: on the confirmation screen 'y' issues exactly one deletePod call, and
\* processing the podDeletedMsg sets the view to viewPods and issues one
\* getPods call with the current selectedNamespace.
C4_ConfirmDeletes ==
    status = "running" =>
        /\ m.view = "viewConfirmDelete" =>
               LET r == Update(variant, m, KeyMsg("y"))
               IN /\ ~r.panic
                  /\ Cardinality({c \in r.cmd : c.type = "deletePod"}) = 1
        /\ \A c \in BagToSet(inflight) : c.type = "deletePod" =>
               LET r == Update(variant, m, [type |-> "podDeletedMsg"])
               IN /\ r.m.view = "viewPods"
                  /\ r.cmd = {getList("pods", m.selectedNamespace)}

\* C5 as claimed: on the confirmation screen 'n' or escape issues no
\* deletePod call, leaves m.pods unchanged and sets the view to the details
\* screen.
C5_CancelOpensDetails ==
    (status = "running" /\ m.view = "viewConfirmDelete") =>
        \A key \in {"n", "esc"} :
            LET r == Update(variant, m, KeyMsg(key))
            IN /\ \A c \in r.cmd : c.type # "deletePod"
               /\ r.m.list["pods"] = m.list["pods"]
               /\ r.m.view = "viewDetails"

\* C5 amended: on the confirmation screen 'n' or escape issues no command,
\* leaves m.pods unchanged and sets the view to the details screen in
\* variant B and to m.previousView in variant A, which is the screen the
\* delete key was pressed on: the pod list or the details screen.
C5_CancelReturns ==
    (status = "running" /\ m.view = "viewConfirmDelete") =>
        \A key \in {"n", "esc"} :
            LET r == Update(variant, m, KeyMsg(key))
            IN /\ ~r.panic
               /\ r.cmd = {}
               /\ r.m.list["pods"] = m.list["pods"]
               /\ variant = "B" => r.m.view = "viewDetails"
               /\ variant = "A" => /\ r.m.view = m.previousView
                                   /\ r.m.view \in {"viewPods", "viewDetails"}

\* C5: the confirmation was opened from the details screen of variant A and
\* escape leads back to it
C5_CancelledFromDetails ==
    /\ status = "running"
    /\ variant = "A"
    /\ m.view = "viewConfirmDelete"
    /\ m.list["pods"] # <<>>
    /\ Update(variant, m, KeyMsg("esc")).m.view = "viewDetails"

\* C6: processing an errMsg leaves every list of the model and both metrics
\* maps unchanged; processing a list message sets the list of its kind (and
\* the metrics map of nodes and pods) to exactly what the message carries.
C6_SnapshotsKept ==
    status = "running" =>
        /\ \A c \in BagToSet(inflight) \ {doTick} :
               LET r == Update(variant, m, [type |-> "errMsg"])
               IN /\ r.m.list = m.list
                  /\ r.m.nodeMetrics = m.nodeMetrics
                  /\ r.m.podMetrics = m.podMetrics
                  /\ r.m.resourceQuotaLines = m.resourceQuotaLines
        /\ \A msg \in Deliverable : msg.type = "listMsg" =>
               LET r == Update(variant, m, msg)
               IN /\ r.m.list[msg.kind] = msg.list
                  /\ msg.kind = "nodes" => r.m.nodeMetrics = msg.metrics
                  /\ msg.kind = "pods" => r.m.podMetrics = msg.metrics

\* C6: an errMsg has been processed while the model holds a pod list, and a
\* fetch that can replace the list or fail is in flight
C6_FailedWithSnapshot ==
    /\ status = "running"
    /\ m.err
    /\ Len(m.list["pods"]) = 2
    /\ m.podMetrics # {}
    /\ \E msg \in Deliverable :
           msg.type = "listMsg" /\ msg.kind = "pods" /\ Len(msg.list) = 1

\* C7: once m.err is set, processing the next successful fetch result
\* clears m.err.
C7_SuccessClearsErr ==
    (status = "running" /\ m.err) =>
        \A msg \in Deliverable :
            msg.type \in {"listMsg", "dashboardMsg"} => ~Update(variant, m, msg).m.err

\* C8: processing an errMsg changes neither m.view, m.previousView nor
\* m.cursor, and processing a tickMsg while m.err is set leaves m.err set.
C8_ErrKeepsScreen ==
    status = "running" =>
        /\ \A c \in BagToSet(inflight) \ {doTick} :
               LET r == Update(variant, m, [type |-> "errMsg"])
               IN /\ r.m.view = m.view
                  /\ r.m.previousView = m.previousView
                  /\ r.m.cursor = m.cursor
        /\ (m.err /\ BagIn(doTick, inflight)) =>
               Update(variant, m, [type |-> "tickMsg"]).m.err

\* C8: the error is set on a list screen with the cursor moved down, and both
\* a timer and a fetch are pending
C8_ErrOnMovedCursor ==
    /\ status = "running"
    /\ m.err
    /\ m.cursor > 0
    /\ m.view = "viewPods"
    /\ BagIn(doTick, inflight)
    /\ BagToSet(inflight) # {doTick}

\* C9: tickMsg is processed infinitely often: while the program runs, a
\* doTick timer is pending or a command is in flight whose result can
\* schedule one.
C9_TimerSurvives == status = "running" => inflight # EmptyBag

\* C10: at most one doTick timer is pending.
C10_OneTimer == CopiesIn(doTick, inflight) <= 1

\* the list fetches in flight for the list the current screen displays
ScreenFetches ==
    IF m.view \in DOMAIN KindOfView
    THEN {c \in BagToSet(inflight) : c.type = Getter[KindOfView[m.view]]}
    ELSE {}

\* C11: at most one list fetch for the resource kind of the current screen
\* is in flight.
C11_OneFetchPerScreen ==
    status = "running" =>
        /\ Cardinality(ScreenFetches) <= 1
        /\ \A c \in ScreenFetches : CopiesIn(c, inflight) = 1

\* the screens on which up and down move the cursor over rows
CursorScreens == (DOMAIN KindOfView) \cup {"viewResourceMenu"}

\* the number of rows View draws on a screen of CursorScreens: the entries of
\* the menu, the namespaces after the "all" row, the quota lines, or the
\* items of the list
Rows(v, mm) ==
    IF mm.view = "viewResourceMenu"
    THEN Len(IF v = "A" THEN resourceTypesA ELSE resourceTypesB)
    ELSE IF mm.view = "viewNamespaces" THEN Len(mm.list["namespaces"]) + 1
    ELSE IF mm.view = "viewResourceQuotas" THEN Len(mm.resourceQuotaLines)
    ELSE Len(mm.list[KindOfView[mm.view]])

\* cursor c is on one of n rows, or at 0 when there is no row
OnRow(n, c) == c >= 0 /\ c <= (IF n = 0 THEN 0 ELSE n - 1)

\* C12: with the cursor in range, an up or down key press on a list screen,
\* the resource menu or the namespace picker keeps m.cursor within [0, n-1]
\* for n displayed rows (at 0 for no row), moving it by at most one row.
C12_CursorStaysOnRows ==
    (/\ status = "running"
     /\ m.view \in CursorScreens
     /\ OnRow(Rows(variant, m), m.cursor)) =>
        \A key \in {"up", "down", "k", "j"} :
            LET r == Update(variant, m, KeyMsg(key))
            IN /\ ~r.panic
               /\ r.m.view = m.view
               /\ OnRow(Rows(variant, r.m), r.m.cursor)
               /\ r.m.cursor - m.cursor \in {-1, 0, 1}

\* C12: the cursor was moved down to the last of two pods and down leaves it
\* there
C12_CursorAtLastRow ==
    /\ status = "running"
    /\ m.view = "viewPods"
    /\ Len(m.list["pods"]) = 2
    /\ m.cursor = 1
    /\ Update(variant, m, KeyMsg("down")).m.cursor = 1
    /\ Update(variant, m, KeyMsg("up")).m.cursor = 0

\* C13: right after a fetch-result message is processed, m.cursor lies in
\* [0, max(0, len(L) - 1)] for the list L the current list screen displays
\* (for the namespace picker, the namespaces after the "all" row).
C13_CursorClampedOnRefresh ==
    status = "running" =>
        \A msg \in Deliverable :
            LET r == Update(variant, m, msg)
            IN (msg.type = "listMsg" /\ r.m.view \in DOMAIN KindOfView) =>
                   OnRow(Rows(variant, r.m), r.m.cursor)

\* the list screens of the running variant
ListViews == IF variant = "A" THEN ListViewsA ELSE ListViewsB

\* the messages that can be processed next: a key, a tick, a result or a
\* failure of a command in flight
Processable ==
    {KeyMsg(key) : key \in Keys(variant)}
    \cup (IF BagIn(doTick, inflight) THEN {[type |-> "tickMsg"]} ELSE {})
    \cup Deliverable
    \cup (IF BagToSet(inflight) \ {doTick} # {} THEN {[type |-> "errMsg"]} ELSE {})

\* C14: every transition that makes a list screen the current view leaves
\* m.cursor == 0.
C14_ListScreenStartsAtTop ==
    status = "running" =>
        \A msg \in Processable :
            LET r == Update(variant, m, msg)
            IN (~r.panic /\ r.m.view # m.view /\ r.m.view \in ListViews) =>
                   r.m.cursor = 0

\* the modal sub-screens
ModalViews ==
    {"viewDetails", "viewLogs", "viewYAML", "viewScaling", "viewConfirmDelete",
     "viewNamespaces", "viewHelp"}

\* C15: no key pressed on a modal sub-screen makes Update return tea.Quit.
C15_NoQuitFromModal ==
    (status = "running" /\ m.view \in ModalViews) =>
        \A key \in Keys(variant) : Quit \notin Update(variant, m, KeyMsg(key)).cmd

\* C15: the help screen of variant B is open, where 'q' closes the help and
\* does not quit
C15_QuitKeyOnHelp ==
    /\ status = "running"
    /\ variant = "B"
    /\ m.view = "viewHelp"
    /\ m.previousView = "viewPods"
    /\ Update(variant, m, KeyMsg("q")).m.view = "viewPods"

\* C16: after the details screen was entered from list screen L, and after
\* any round trips into logs, YAML, scaling or the delete confirmation that
\* were left by escape or cancel, escape on the details screen sets the view
\* to L.
C16_EscapeReturnsToList ==
    (status = "running" /\ m.view = "viewDetails" /\ origin # "") =>
        Update(variant, m, KeyMsg("esc")).m.view = origin

\* C17: on the scaling screen with an input text that parses as the integer
\* N, enter issues exactly one scaleDeployment call, with replicas N.
C17_SubmitScales ==
    (status = "running" /\ m.view = "viewScaling" /\ AtoiOk(m.textInput)) =>
        LET r == Update(variant, m, KeyMsg("enter"))
        IN /\ ~r.panic
           /\ Cardinality(r.cmd) = 1
           /\ \A c \in r.cmd :
                  c.type = "scaleDeployment" /\ c.arg = Atoi(m.textInput)

\* the keys that close the scaling screen without submitting
ScalingCancelKeys(v) == IF v = "A" THEN {"q", "esc"} ELSE {"esc"}

PickerEntry(mm, i) == IF i = 0 THEN "" ELSE At(mm.list["namespaces"], i - 1).name

\* the getPods calls a message makes Update issue pass the namespace filter
\* of the resulting model
PodFetchesPassFilter(msg) ==
    \A c \in Update(variant, m, msg).cmd :
        c.type = "getPods" => c.ns = Update(variant, m, msg).m.selectedNamespace

\* C19 as claimed: enter in the namespace picker with the cursor on entry e
\* sets selectedNamespace to e's name, sets the view to the screen the
\* picker was opened from and immediately issues that screen's list fetch
\* with the new namespace; every getPods call issued afterwards passes the
\* selected namespace.
C19_PickerRefetches ==
    status = "running" =>
        /\ (m.view = "viewNamespaces" /\ OnRow(Rows(variant, m), m.cursor)) =>
               LET r == Update(variant, m, KeyMsg("enter"))
               IN /\ r.m.selectedNamespace = PickerEntry(m, m.cursor)
                  /\ r.m.view = m.previousView
                  /\ r.m.view \in ListViews
                  /\ r.cmd = {getList(KindOfView[r.m.view], r.m.selectedNamespace)}
        /\ \A msg \in Processable : PodFetchesPassFilter(msg)

\* C19 amended: enter in the namespace picker with the cursor on entry e
\* sets selectedNamespace to e's name.  Variant B sets the view to
\* m.previousView, the screen N was pressed on, and issues what a tick issues
\* on that screen: its list fetch with the new namespace, or
\* getDashboardMetrics on the dashboard.  Variant A sets the view to the
\* resource menu and issues no command.  Every getPods call any message
\* issues passes the selected namespace.
C19_PickerSelects ==
    status = "running" =>
        /\ (m.view = "viewNamespaces" /\ OnRow(Rows(variant, m), m.cursor)) =>
               LET r == Update(variant, m, KeyMsg("enter"))
               IN /\ ~r.panic
                  /\ r.m.selectedNamespace = PickerEntry(m, m.cursor)
                  /\ variant = "A" => r.m.view = "viewResourceMenu" /\ r.cmd = {}
                  /\ variant = "B" =>
                         /\ r.m.view = m.previousView
                         /\ r.m.view \in ListViewsB \cup {"viewDashboard"}
                         /\ r.cmd = IF r.m.view = "viewDashboard"
                                    THEN {getDashboardMetrics}
                                    ELSE {getList(KindOfView[r.m.view],
                                                  r.m.selectedNamespace)}
        /\ \A msg \in Processable : PodFetchesPassFilter(msg)

\* C19: the picker of variant B was opened from the pod list with another
\* namespace selected, the cursor is on the first namespace, and enter
\* fetches the pods of that namespace
C19_PickedFromPods ==
    /\ status = "running"
    /\ variant = "B"
    /\ m.view = "viewNamespaces"
    /\ m.previousView = "viewPods"
    /\ m.cursor = 1
    /\ Len(m.list["namespaces"]) >= 1
    /\ m.selectedNamespace # PickerEntry(m, 1)
    /\ Update(variant, m, KeyMsg("enter")).cmd = {getList("pods", PickerEntry(m, 1))}

\* the screens on which the last switch of case tea.KeyMsg acts on the global
\* keys: the list screens and the dashboard
NonModalViews(v) ==
    ((IF v = "A" THEN ListViewsA ELSE ListViewsB) \ ModalViews) \cup {"viewDashboard"}

\* the screen each global key of a variant opens
GlobalKeyTarget(v) ==
    IF v = "A"
    THEN ("q" :> "viewResourceMenu") @@ ("D" :> "viewDashboard")
         @@ ("H" :> "viewHostDashboard")
    ELSE ("r" :> "viewResourceMenu") @@ ("D" :> "viewDashboard")
         @@ ("?" :> "viewHelp")

C21_QuitKeysQuit ==
    (status = "running"
     /\ m.view \in NonModalViews(variant) \cup {"viewResourceMenu"}) =>
        \A key \in {"q", "ctrl+c"} : Quit \in Update(variant, m, KeyMsg(key)).cmd

(***************************************************************************)
(* The functions behind the commands, called on a cluster.  The cluster    *)
(* holds nodes with a capacity and pods; the metrics server holds a usage  *)
(* sample for some of them.  A list call returns an error when its server *)
(* is not up.                                                              *)
(***************************************************************************)
MaxNodes == 2      \* most nodes of the cluster
MaxPods == 6       \* most pods of the cluster
MaxRuns == 2       \* calls of getDashboardMetrics on one cluster
MaxQuantity == 200 \* greatest quantity formatPercentage is called with

\* topN := 5
TopN == 5

\* node i: Status.Capacity
ClusterNode(i) == [ns |-> "", name |-> "n" \o ToString(i), cpu |-> 4, mem |-> 4]

\* pod i; the last pod has the name of the first one, in another namespace
ClusterPod(i) ==
    IF i < MaxPods THEN Obj("ns1", "p" \o ToString(i)) ELSE Obj("ns2", "p1")

\* NodeMetrics, PodMetrics (the containers' usage added up by totalPodCPU
\* and totalPodMemory): a sample of level 1 or 2
Sample(obj, level) ==
    [ns |-> obj.ns, name |-> obj.name, cpu |-> level, mem |-> 3 - level]

\* the items of a metrics list call: a metrics object for every object whose
\* level is not 0
SamplesOf(objs, level) ==
    LET all == [i \in 1..Len(objs) |-> Sample(objs[i], level[i])]
    IN SelectSeq(all, LAMBDA s : s.cpu > 0)

\* the sample levels of up to max objects
Levels(max) == UNION {[1..n -> 0..2] : n \in 0..max}

ClusterOf(nodeLevel, podLevel, metricsUp) ==
    LET nodes == [i \in 1..Len(nodeLevel) |-> ClusterNode(i)]
        pods == [i \in 1..Len(podLevel) |-> ClusterPod(i)]
    IN [apiUp |-> TRUE,
        metricsUp |-> metricsUp,
        nodes |-> nodes,
        pods |-> pods,
        nodeMetrics |-> SamplesOf(nodes, nodeLevel),
        podMetrics |-> SamplesOf(pods, podLevel)]

\* the clusters a command function is called on: the API server answers and
\* the metrics server has samples, or the metrics server is unavailable, or
\* the API server is
Clusters ==
    {ClusterOf(nl, pl, TRUE) : nl \in Levels(MaxNodes), pl \in Levels(MaxPods)}
    \cup {ClusterOf([i \in 1..nn |-> 0], [i \in 1..np |-> 0], FALSE) :
             nn \in 0..MaxNodes, np \in 0..MaxPods}
    \cup {[ClusterOf(<<>>, <<>>, FALSE) EXCEPT !.apiUp = FALSE]}

\* metricsMap[m.Name] = m for the items of a metrics list: a later item
\* replaces an earlier one of the same name
MetricsMap(items) ==
    [n \in {items[i].name : i \in 1..Len(items)} |->
        LET last == CHOOSE i \in 1..Len(items) :
                        /\ items[i].name = n
                        /\ \A j \in (i + 1)..Len(items) : items[j].name # n
        IN items[last]]

\* the objects a namespaced list call returns
InNamespace(items, namespace) ==
    SelectSeq(items, LAMBDA o : namespace = "" \/ o.ns = namespace)

\* func getNodes: the message the command returns
getNodesMsg(c) ==
    IF ~c.apiUp THEN [type |-> "errMsg"]
    ELSE [type |-> "listMsg", kind |-> "nodes", list |-> c.nodes,
          metrics |-> IF c.metricsUp THEN DOMAIN MetricsMap(c.nodeMetrics) ELSE {}]

\* func getPods: the message the command returns
getPodsMsg(c, namespace) ==
    IF ~c.apiUp THEN [type |-> "errMsg"]
    ELSE [type |-> "listMsg", kind |-> "pods",
          list |-> InNamespace(c.pods, namespace),
          metrics |-> IF c.metricsUp
                      THEN DOMAIN MetricsMap(InNamespace(c.podMetrics, namespace))
                      ELSE {}]

Abs(x) == IF x < 0 THEN -x ELSE x

\* the integers nearest to n/d: two of them when n/d lies half way
Nearest(n, d) == {q \in {n \div d, n \div d + 1} : 2 * Abs(q * d - n) <= d}

\* n/d rounded to an integer, half way to the even one (strconv)
RoundHalfEven(n, d) ==
    CHOOSE q \in Nearest(n, d) : Cardinality(Nearest(n, d)) = 1 \/ q % 2 = 0

\* "%.2f" of h hundredths
Hundredths(h) ==
    ToString(h \div 100) \o "." \o ToString((h % 100) \div 10) \o ToString(h % 10)

\* a faulty formatPercentage: the digits after the last one written are cut
\* off instead of rounded
formatPercentageTruncating(v, used, total) ==
    IF total = 0 THEN {"0"}
    ELSE IF v = "A" THEN {Hundredths((10000 * used) \div total)}
    ELSE {ToString((100 * used) \div total)}

\* func formatPercentage: the strings the call can return.  Variant A
\* formats float64(used)/float64(total)*100 with "%.2f": the quotient and
\* the product are rounded to a float64 before the hundredths are, so that a
\* value half way between two hundredths goes to either of them.  Variant B
\* formats float64(val)*100/float64(total) with "%.0f".
formatPercentage(v, used, total) ==
    IF total = 0 THEN {"0"}
    ELSE IF v = "A" THEN {Hundredths(h) : h \in Nearest(10000 * used, total)}
    ELSE {ToString(RoundHalfEven(100 * used, total))}

\* the orders sort.Slice can leave equal elements in.  sort.Slice is not
\* stable ("equal elements may be reversed from their original order"); the
\* order is the library's choice, a function of the slice.  The library keeps
\* the order in a short slice (insertion sort: fewer than 7 elements before
\* Go 1.19, fewer than 13 since) and not in a longer one; the model has that
\* length scaled down to 2.
SortOrders == {"kept", "reversed"}

RECURSIVE sortSliceByTurns(_, _, _)
\* a faulty sort.Slice: the order it leaves equal elements in changes from
\* one call of getDashboardMetrics to the next
sortSliceByTurns(items, key, order) ==
    IF items = <<>> THEN <<>>
    ELSE LET n == Len(items)
             Before(i, j) ==
                 \/ items[i][key] > items[j][key]
                 \/ /\ items[i][key] = items[j][key]
                    /\ IF Len(call.runs) = 0 THEN i < j ELSE i > j
             first == CHOOSE i \in 1..n : \A j \in (1..n) \ {i} : Before(i, j)
         IN <<items[first]>>
            \o sortSliceByTurns(SubSeq(items, 1, first - 1)
                                    \o SubSeq(items, first + 1, n), key, order)

RECURSIVE sortSlice(_, _, _)
\* sort.Slice(items, func(i, j) bool { return items[i].<key> > items[j].<key> })
sortSlice(items, key, order) ==
    IF items = <<>> THEN <<>>
    ELSE LET n == Len(items)
             Before(i, j) ==
                 \/ items[i][key] > items[j][key]
                 \/ /\ items[i][key] = items[j][key]
                    /\ IF order = "kept" THEN i < j ELSE i > j
             first == CHOOSE i \in 1..n : \A j \in (1..n) \ {i} : Before(i, j)
         IN <<items[first]>>
            \o sortSlice(SubSeq(items, 1, first - 1) \o SubSeq(items, first + 1, n),
                         key, order)

\* for i := 0; i < len(sorted) && i < topN; i++: the objects of the first
\* topN elements
Top(sorted) ==
    [i \in 1..(IF Len(sorted) < TopN THEN Len(sorted) ELSE TopN) |-> sorted[i].obj]

\* podsWithMetrics, nodesWithMetrics: the objects whose name is in the
\* metrics map, with the usage of the map's entry
WithMetrics(objs, metricsMap) ==
    LET all == [i \in 1..Len(objs) |->
                   IF objs[i].name \in DOMAIN metricsMap
                   THEN [obj |-> objs[i], cpu |-> metricsMap[objs[i].name].cpu,
                         mem |-> metricsMap[objs[i].name].mem]
                   ELSE [obj |-> objs[i], cpu |-> 0, mem |-> 0]]
    IN SelectSeq(all, LAMBDA x : x.obj.name \in DOMAIN metricsMap)

RECURSIVE Sum(_, _)
\* the sum of field key over a sequence of records
Sum(items, key) ==
    IF items = <<>> THEN 0 ELSE Head(items)[key] + Sum(Tail(items), key)

\* fmt.Sprintf("%s / %s (%s%%)", ...) with formatMilliCPU or formatMiBMemory
Usage(used, total, unit, pct) ==
    ToString(used) \o unit \o " / " \o ToString(total) \o unit \o " (" \o pct \o "%)"

\* podCPUChartData, ...: the bar of each ranked object (variant A)
ChartData(v, top, metricsMap, key) ==
    IF v = "A"
    THEN [i \in 1..Len(top) |->
             [label |-> top[i].name, value |-> metricsMap[top[i].name][key]]]
    ELSE <<>>

\* func getDashboardMetrics: the messages the command can return
getDashboardMetricsMsg(v, c, order) ==
    IF ~c.apiUp \/ ~c.metricsUp
    THEN {[type |-> "errMsg"]}
    ELSE LET nodeMetricsMap == MetricsMap(c.nodeMetrics)
             podMetricsMap == MetricsMap(c.podMetrics)
             podsWithMetrics == WithMetrics(c.pods, podMetricsMap)
             nodesWithMetrics == WithMetrics(c.nodes, nodeMetricsMap)
             topPodsCPU == Top(sortSlice(podsWithMetrics, "cpu", order))
             topPodsMem == Top(sortSlice(podsWithMetrics, "mem", order))
             topNodesCPU == Top(sortSlice(nodesWithMetrics, "cpu", order))
             topNodesMem == Top(sortSlice(nodesWithMetrics, "mem", order))
             totalCPUCapacity == Sum(c.nodes, "cpu")
             totalMemoryCapacity == Sum(c.nodes, "mem")
             totalCPUUsage == Sum(nodesWithMetrics, "cpu")
             totalMemoryUsage == Sum(nodesWithMetrics, "mem")
         IN {[type |-> "dashboardMsg",
              agg |-> [clusterCPUUsage |->
                           Usage(totalCPUUsage, totalCPUCapacity, "m", cpuPct),
                       clusterMemoryUsage |->
                           Usage(totalMemoryUsage, totalMemoryCapacity, "Mi", memPct),
                       topPodsByCPU |-> topPodsCPU,
                       topPodsByMemory |-> topPodsMem,
                       topNodesByCPU |-> topNodesCPU,
                       topNodesByMemory |-> topNodesMem,
                       podCPUChartData |-> ChartData(v, topPodsCPU, podMetricsMap, "cpu"),
                       podMemoryChartData |->
                           ChartData(v, topPodsMem, podMetricsMap, "mem"),
                       nodeCPUChartData |->
                           ChartData(v, topNodesCPU, nodeMetricsMap, "cpu"),
                       nodeMemoryChartData |->
                           ChartData(v, topNodesMem, nodeMetricsMap, "mem")]] :
                cpuPct \in formatPercentage(v, totalCPUUsage, totalCPUCapacity),
                memPct \in formatPercentage(v, totalMemoryUsage, totalMemoryCapacity)}

RECURSIVE Play(_, _, _)
\* the model after Update has processed the messages msgs
Play(v, mm, msgs) ==
    IF msgs = <<>> THEN mm
    ELSE Play(v, Update(v, mm, Head(msgs)).m, Tail(msgs))

\* the model when the user has opened the pod list from the resource menu
OpenedPodList(v) ==
    Play(v, initialModel(v),
         <<[type |-> "WindowSizeMsg"]>>
         \o (IF v = "A"
             THEN <<KeyMsg("down"), KeyMsg("down"), KeyMsg("down"), KeyMsg("down")>>
             ELSE <<KeyMsg("r"), KeyMsg("down")>>)
         \o <<KeyMsg("enter")>>)

\* the command functions are called on a cluster while the pod list is open
FetchInit ==
    /\ variant \in {"A", "B"}
    /\ session = PodSession
    /\ m = OpenedPodList(variant)
    /\ inflight = EmptyBag
    /\ status = "running"
    /\ pending = NoDetails
    /\ origin = ""
    /\ \E c \in Clusters, o \in SortOrders :
           call = [fn |-> "", out |-> <<>>, cluster |-> c, order |-> o, runs |-> <<>>]

\* getNodes is called
GetNodes ==
    /\ call' = [call EXCEPT !.fn = "getNodes", !.out = getNodesMsg(call.cluster)]
    /\ UNCHANGED <<variant, session, m, inflight, status, pending, origin>>

\* getPods is called with the selected namespace
GetPods ==
    /\ call' = [call EXCEPT !.fn = "getPods",
                            !.out = getPodsMsg(call.cluster, m.selectedNamespace)]
    /\ UNCHANGED <<variant, session, m, inflight, status, pending, origin>>

\* getDashboardMetrics is called
GetDashboardMetrics ==
    /\ Len(call.runs) < MaxRuns
    /\ \E msg \in getDashboardMetricsMsg(variant, call.cluster, call.order) :
           call' = [call EXCEPT !.fn = "getDashboardMetrics", !.out = msg,
                                !.runs = Append(@, msg)]
    /\ UNCHANGED <<variant, session, m, inflight, status, pending, origin>>

FetchNext == GetNodes \/ GetPods \/ GetDashboardMetrics

FetchSpec == FetchInit /\ [][FetchNext]_vars

\* the elements of a sequence
Range(s) == {s[i] : i \in 1..Len(s)}

\* object o has a sample among the items of a metrics list
HasSample(items, o) == \E i \in 1..Len(items) : items[i].ns = o.ns /\ items[i].name = o.name

\* the usage of the sample of object o
UsageOf(items, o, key) ==
    LET i == CHOOSE i \in 1..Len(items) : items[i].ns = o.ns /\ items[i].name = o.name
    IN items[i][key]

\* the position of object o in the list objs
PositionIn(objs, o) == CHOOSE i \in 1..Len(objs) : objs[i] = o

\* a dashboardMsg has been returned by the last call
AggregateReturned ==
    call.fn = "getDashboardMetrics" /\ call.out.type = "dashboardMsg"

\* ranking r holds the min(TopN, k) objects of greatest usage among the k
\* objects of objs with a sample, by falling usage, objects of equal usage
\* in the order of objs
Ranks(r, objs, items, key) ==
    LET sampled == {o \in Range(objs) : HasSample(items, o)}
        k == Cardinality(sampled)
    IN /\ Len(r) = (IF k < TopN THEN k ELSE TopN)
       /\ Range(r) \subseteq sampled
       /\ \A i, j \in 1..Len(r) :
              i < j =>
                  \/ UsageOf(items, r[i], key) > UsageOf(items, r[j], key)
                  \/ /\ UsageOf(items, r[i], key) = UsageOf(items, r[j], key)
                     /\ PositionIn(objs, r[i]) < PositionIn(objs, r[j])
       /\ \A o \in Range(r), p \in sampled \ Range(r) :
              UsageOf(items, o, key) >= UsageOf(items, p, key)

\* C22: each of the four rankings of getDashboardMetrics holds the min(5, k)
\* objects of greatest usage among the k objects with a metrics sample, by
\* falling usage, objects of equal usage in the order of the input list.
C22_RankingsStable ==
    AggregateReturned =>
        LET c == call.cluster
            agg == call.out.agg
        IN /\ Ranks(agg.topPodsByCPU, c.pods, c.podMetrics, "cpu")
           /\ Ranks(agg.topPodsByMemory, c.pods, c.podMetrics, "mem")
           /\ Ranks(agg.topNodesByCPU, c.nodes, c.nodeMetrics, "cpu")
           /\ Ranks(agg.topNodesByMemory, c.nodes, c.nodeMetrics, "mem")

\* C23: in getDashboardMetrics a node without a metrics sample adds its
\* capacity to the capacity totals, nothing to the usage totals and is in no
\* node ranking; a pod without a metrics sample is in no pod ranking.
C23_UnsampledLeftOut ==
    AggregateReturned =>
        LET c == call.cluster
            agg == call.out.agg
            cpuUsed == Sum(c.nodeMetrics, "cpu")
            memUsed == Sum(c.nodeMetrics, "mem")
            cpuTotal == Sum(c.nodes, "cpu")
            memTotal == Sum(c.nodes, "mem")
        IN /\ \E pct \in formatPercentage(variant, cpuUsed, cpuTotal) :
                  agg.clusterCPUUsage = Usage(cpuUsed, cpuTotal, "m", pct)
           /\ \E pct \in formatPercentage(variant, memUsed, memTotal) :
                  agg.clusterMemoryUsage = Usage(memUsed, memTotal, "Mi", pct)
           /\ \A n \in Range(c.nodes) :
                  ~HasSample(c.nodeMetrics, n) =>
                      n \notin Range(agg.topNodesByCPU) \cup Range(agg.topNodesByMemory)
           /\ \A p \in Range(c.pods) :
                  ~HasSample(c.podMetrics, p) =>
                      p \notin Range(agg.topPodsByCPU) \cup Range(agg.topPodsByMemory)

\* C24: when the resource list call succeeds and the metrics list call
\* fails, getNodes, getPods and getDashboardMetrics return their success
\* message with an empty metrics index, and Update does not set m.err.
C24_MetricsBestEffort ==
    (call.fn # "" /\ call.cluster.apiUp /\ ~call.cluster.metricsUp) =>
        /\ call.out.type \in {"listMsg", "dashboardMsg"}
        /\ call.out.type = "listMsg" => call.out.metrics = {}
        /\ ~Update(variant, m, call.out).m.err

PctInit ==
    /\ variant \in {"A", "B"}
    /\ session = PodSession
    /\ m = initialModel(variant)
    /\ inflight = EmptyBag
    /\ status = "running"
    /\ pending = NoDetails
    /\ origin = ""
    /\ \E used, total \in 0..MaxQuantity :
           call = [fn |-> "", out |-> "", used |-> used, total |-> total]

\* the call formatPercentage(used, total) returns
FormatPercentage ==
    /\ call.fn = ""
    /\ \E s \in formatPercentage(variant, call.used, call.total) :
           call' = [call EXCEPT !.fn = "formatPercentage", !.out = s]
    /\ UNCHANGED <<variant, session, m, inflight, status, pending, origin>>

PctNext == FormatPercentage

PctSpec == PctInit /\ [][PctNext]_vars

Placeholder(v) == IF v = "A" THEN "N/A" ELSE "---"

\* the texts a usage column of a pod can show: variant A shows the usage of a
\* sampled pod; variant B its share of the pod's requests, and the placeholder
\* when the pod requests nothing
UsageColumn(v, mm, pod) ==
    IF pod.name \notin mm.podMetrics THEN {Placeholder(v)}
    ELSE IF v = "A" THEN {"usage"}
    ELSE {"percent", Placeholder(v)}

\* a faulty renderPods: a pod without a sample gets no row
renderPodsSampledOnly(v, mm) ==
    LET sampled == SelectSeq(mm.list["pods"], LAMBDA pod : pod.name \in mm.podMetrics)
    IN [i \in 1..Len(sampled) |->
           [name |-> sampled[i].name,
            cpu |-> UsageColumn(v, mm, sampled[i]),
            mem |-> UsageColumn(v, mm, sampled[i])]]

\* func renderPods (variant B: renderPodsList): the rows under the header;
\* variant B writes "No Pods found." and no row for an empty list
renderPods(v, mm) ==
    [i \in 1..Len(mm.list["pods"]) |->
        [name |-> mm.list["pods"][i].name,
         cpu |-> UsageColumn(v, mm, mm.list["pods"][i]),
         mem |-> UsageColumn(v, mm, mm.list["pods"][i])]]

\* C27: on the pod list screen, after a pod list arrived, every pod has its
\* row, the row of a pod whose name has no entry in m.podMetrics shows the
\* placeholder ("N/A" in variant A, "---" in variant B) in the CPU and the
\* memory column, and m.err is not set.
C27_UnsampledPodsListed ==
    (call.fn = "getPods" /\ call.out.type = "listMsg") =>
        LET r == Update(variant, m, call.out)
            rows == renderPods(variant, r.m)
            pods == call.out.list
        IN /\ ~r.panic
           /\ r.m.view = "viewPods"
           /\ ~r.m.err
           /\ Len(rows) = Len(pods)
           /\ \A i \in 1..Len(pods) :
                  /\ rows[i].name = pods[i].name
                  /\ pods[i].name \notin call.out.metrics =>
                         /\ rows[i].cpu = {Placeholder(variant)}
                         /\ rows[i].mem = {Placeholder(variant)}

\* C27: getPods returned a list with a sampled pod and a pod without a
\* sample, and the list is on the pod list screen
C27_OneSampledOneNot ==
    /\ call.fn = "getPods"
    /\ call.out.type = "listMsg"
    /\ m.view = "viewPods"
    /\ \E i, j \in 1..Len(call.out.list) :
           /\ call.out.list[i].name \in call.out.metrics
           /\ call.out.list[j].name \notin call.out.metrics
           /\ Update(variant, m, call.out).m.list["pods"] = call.out.list
           /\ Update(variant, m, call.out).m.podMetrics = call.out.metrics

\* C28: for every sequence of keys, ticks, window sizes and fetch results
\* neither Update nor View indexes a resource list outside its bounds.
C28_NeverOutOfRange == status # "panic"

\* the key that opens the delete confirmation, and the key that opens the
\* scaling input
DeleteKey(v) == IF v = "A" THEN "X" ELSE "d"

ScaleKey(v) == IF v = "A" THEN "S" ELSE "r"

\* kind's list screen, or the details opened from it
OnListOrDetailsOf(mm, view) ==
    \/ mm.view = view
    \/ mm.view = "viewDetails" /\ mm.previousView = view

\* C29: the view becomes viewConfirmDelete only by the delete key pressed on
\* the pod list or a pod's details, and viewScaling only by the scale key
\* pressed on the deployment list or a deployment's details; escape never
\* makes either of them the current view.
C29_ModalOnlyByItsKey ==
    status = "running" =>
        \A msg \in Processable :
            LET r == Update(variant, m, msg)
            IN ~r.panic =>
                   /\ (r.m.view = "viewConfirmDelete" /\ m.view # "viewConfirmDelete") =>
                          /\ msg = KeyMsg(DeleteKey(variant))
                          /\ OnListOrDetailsOf(m, "viewPods")
                   /\ (r.m.view = "viewScaling" /\ m.view # "viewScaling") =>
                          /\ msg = KeyMsg(ScaleKey(variant))
                          /\ OnListOrDetailsOf(m, "viewDeployments")
                   /\ msg = KeyMsg("esc") =>
                          r.m.view \notin {"viewConfirmDelete", "viewScaling"}

\* the screens that show a fetched text or wait for one: the requesting
\* screen of a getLogs or getResourceYAML call is one of them
TextViews == {"viewDetails", "viewLogs", "viewYAML"}

\* C30: a logsMsg or yamlMsg that arrives after the user has left the
\* requesting screen changes neither m.view nor the text fields of the model.
C30_LateTextIgnored ==
    (status = "running" /\ m.view \notin TextViews) =>
        \A msg \in Deliverable :
            msg.type \in {"logsMsg", "yamlMsg"} =>
                LET r == Update(variant, m, msg)
                IN /\ r.m.view = m.view
                   /\ r.m.details = m.details
                   /\ r.m.yamlContent = m.yamlContent

\* C31: a list result for the current list screen whose list has more than
\* m.cursor elements leaves m.cursor unchanged.
C31_SelectionSurvivesRefresh ==
    (status = "running" /\ m.view \in DOMAIN KindOfView) =>
        \A msg \in Deliverable :
            (/\ msg.type = "listMsg"
             /\ msg.kind = KindOfView[m.view]
             /\ Len(msg.list) > m.cursor) =>
                Update(variant, m, msg).m.cursor = m.cursor

\* C32: a deletePod call is issued only by 'y' or 'Y' on the delete
\* confirmation and a scaleDeployment call only by enter on the scaling
\* input; no tick, result, failure or other key issues a mutating call.
C32_MutationsOnlyOnConfirm ==
    status = "running" =>
        \A msg \in Processable \cup {[type |-> "WindowSizeMsg"]} :
            \A c \in Update(variant, m, msg).cmd :
                /\ c.type = "deletePod" =>
                       /\ msg \in {KeyMsg("y"), KeyMsg("Y")}
                       /\ m.view = "viewConfirmDelete"
                /\ c.type = "scaleDeployment" =>
                       /\ msg = KeyMsg("enter")
                       /\ m.view = "viewScaling"

\* C32: a deletePod call issued on the delete confirmation is in flight
\* while other keys are pressed and a tick is due
C32_DeleteInFlight ==
    /\ status = "running"
    /\ \E c \in BagToSet(inflight) : c.type = "deletePod"
    /\ BagIn(doTick, inflight)
    /\ m.view = "viewConfirmDelete"
    /\ InRange(m.list["pods"], m.cursor)

\* C33: a key press that makes viewDetails the current view, from a screen
\* that was not opened from the details, is pressed on a list screen with an
\* object at the cursor, and m.details becomes the rendering of that object.
C33_DetailsOfSelected ==
    (status = "running" /\ m.view \notin SubScreens \cup {"viewDetails"}) =>
        \A key \in Keys(variant) :
            LET r == Update(variant, m, KeyMsg(key))
            IN (~r.panic /\ r.m.view = "viewDetails") =>
                   /\ m.view \in DOMAIN KindOfView
                   /\ InRange(m.list[KindOfView[m.view]], m.cursor)
                   /\ r.m.details =
                          Details(KindOfView[m.view],
                                  At(m.list[KindOfView[m.view]], m.cursor))

\* C34: a tickMsg on a list screen or the dashboard issues exactly one
\* command, the fetch the screen owns (the list call of the screen's kind,
\* with m.selectedNamespace for a namespaced kind; getDashboardMetrics on the
\* dashboard), and changes no field of the model.
C34_TickFetchesOwned ==
    (status = "running" /\ m.view \in ListViews \cup {"viewDashboard"}) =>
        LET r == Update(variant, m, [type |-> "tickMsg"])
        IN /\ ~r.panic
           /\ r.m = m
           /\ Cardinality(r.cmd) = 1
           /\ \A c \in r.cmd :
                  IF m.view = "viewDashboard" THEN c.type = "getDashboardMetrics"
                  ELSE /\ c.type = Getter[KindOfView[m.view]]
                       /\ c.ns = IF KindOfView[m.view] \in ClusterScoped THEN ""
                                 ELSE m.selectedNamespace

\* C34: a tick is due on the pod list while a namespace is selected
C34_TickOnFilteredPods ==
    /\ status = "running"
    /\ m.view = "viewPods"
    /\ m.selectedNamespace # ""
    /\ BagIn(doTick, inflight)
    /\ Update(variant, m, [type |-> "tickMsg"]).cmd
           = {getList("pods", m.selectedNamespace)}

\* the screens that own no fetch
NoFetchViews ==
    {"viewResourceMenu", "viewHelp", "viewDetails", "viewLogs", "viewYAML",
     "viewScaling", "viewConfirmDelete"}

\* C35: a tickMsg on a screen that owns no fetch issues no API call, changes
\* no field of the model and schedules exactly one doTick timer.
C35_TickOnlyReschedules ==
    (status = "running" /\ m.view \in NoFetchViews) =>
        Update(variant, m, [type |-> "tickMsg"]) = Ret(m, {doTick})

\* C35: a tick is due on the delete confirmation of variant A
C35_TickOnConfirmation ==
    /\ status = "running"
    /\ variant = "A"
    /\ m.view = "viewConfirmDelete"
    /\ BagIn(doTick, inflight)
    /\ Update(variant, m, [type |-> "tickMsg"]).cmd = {doTick}

\* C36: in the namespace picker every entry drawn at or below the cursor is
\* reached by that many down key presses, and enter on it selects the
\* namespace drawn on that row.
C36_EveryEntrySelectable ==
    (/\ status = "running"
     /\ m.view = "viewNamespaces"
     /\ OnRow(Rows(variant, m), m.cursor)) =>
        \A i \in m.cursor..Len(m.list["namespaces"]) :
            LET at == Play(variant, m, [k \in 1..(i - m.cursor) |-> KeyMsg("down")])
            IN /\ at.cursor = i
               /\ Update(variant, at, KeyMsg("enter")).m.selectedNamespace
                      = PickerEntry(m, i)

\* the local podsWithMetrics of getDashboardMetrics on cluster c: the pods it
\* ranks, each with the usage it is ranked by
podsWithMetricsOf(c) == WithMetrics(c.pods, MetricsMap(c.podMetrics))

\* C37: the usage getDashboardMetrics ranks a pod by is the usage of the
\* sample of that pod (same namespace, same name), and the pod list shows a
\* usage only for a pod that has a sample of its own.
C37_UsageOfSamePod ==
    /\ AggregateReturned =>
           \A i \in 1..Len(podsWithMetricsOf(call.cluster)) :
               LET e == podsWithMetricsOf(call.cluster)[i]
               IN /\ HasSample(call.cluster.podMetrics, e.obj)
                  /\ e.cpu = UsageOf(call.cluster.podMetrics, e.obj, "cpu")
                  /\ e.mem = UsageOf(call.cluster.podMetrics, e.obj, "mem")
    /\ (call.fn = "getPods" /\ call.out.type = "listMsg") =>
           \A i \in 1..Len(call.out.list) :
               Placeholder(variant)
                   \notin UsageColumn(variant, Update(variant, m, call.out).m,
                                      call.out.list[i])
                   => HasSample(call.cluster.podMetrics, call.out.list[i])

\* ---- the host dashboard of variant A ----

\* the user opens the host dashboard and nothing else
HostSession == {"viewResourceMenu", "viewHostDashboard"}

HostInit ==
    /\ variant = "A"
    /\ session = HostSession
    /\ m = initialModel(variant)
    /\ inflight = SetToBag(InitCmd(variant))
    /\ status = "running"
    /\ pending = NoDetails
    /\ origin = ""
    /\ call = NoCall

HostSpec == HostInit /\ [][Next]_vars

\* C38: on the host dashboard activeHostTab is an index of hostTabs and the
\* cursor is an index of the list of the active tab (hostLogTypes on "System
\* Logs", the containers, if any, on "Application Logs"), so that enter
\* indexes the list within its bounds.
C38_HostCursorInBounds ==
    (status = "running" /\ m.view = "viewHostDashboard") =>
        /\ InRange(hostTabs, m.activeHostTab)
        /\ At(hostTabs, m.activeHostTab) = "System Logs" =>
               InRange(hostLogTypes, m.cursor)
        /\ (At(hostTabs, m.activeHostTab) = "Application Logs"
            /\ Len(m.containers) > 0) => InRange(m.containers, m.cursor)
        /\ ~Update(variant, m, KeyMsg("enter")).panic

====
